---- MODULE Spec2Model ----
(* A model of src/src/main.rs: the 2x3 board with one empty cell          *)
(* (Board), the tally (Counter) and the rejection-sampling driver          *)
(* (simulate).                                                             *)
EXTENDS Integers, Sequences, FiniteSets, TLC

(* ------------------------------------------------------------------ *)
(* Bounds of the exploration                                           *)
(* ------------------------------------------------------------------ *)

\* largest iteration count n passed to simulate
MaxN == 3
\* largest initial_x passed to simulate (3 passes the guard of Board::new, 4 does not)
MaxStartX == 4
\* largest initial_y passed to simulate (2 passes the guard of Board::new, 3 does not)
MaxStartY == 3
\* the f64 drawn from Standard, a value of [0,1), is v / ValDenom for v in 0..ValDenom-1
ValDenom == 8

(* ------------------------------------------------------------------ *)
(* Values                                                              *)
(* ------------------------------------------------------------------ *)

Dirs == {"up", "down", "left", "right"}

\* Result::Ok(())
Ok == [kind |-> "Ok"]

\* `v as i32` for a usize v: the low 32 bits read as two's complement, so a value
\* up to 2^31 - 1 is kept and one of 2^31 .. 2^32 - 1 loses 2^32
AsI32(v) ==
  IF v <= 2147483647 THEN v ELSE ((v - 2147483647) - 2147483647) - 2

\* SimError::new_impossible_move
new_impossible_move(curr_x, curr_y, tried_x, tried_y) ==
  [kind |-> "ImpossibleMove", curr_x |-> curr_x, curr_y |-> curr_y,
   tried_x |-> tried_x, tried_y |-> tried_y]

\* the vec! of Board::new: two rows of three particles, indexed from 0
FullNodes == [r \in 0..1 |-> [c \in 0..2 |-> "Particle"]]

\* slice::swap(a, b) on a vector indexed from 0
vec_swap(v, a, b) ==
  [k \in DOMAIN v |-> IF k = a THEN v[b] ELSE IF k = b THEN v[a] ELSE v[k]]

\* no board has been constructed yet, or Board::new panicked
NoBoard == [kind |-> "NoBoard"]

\* the outcome of a panic in Board::new
Panic == [kind |-> "Panic"]

\* a mutant of Board::new: only the explicit guard, no bounds check on the index
Board_new_guard_only(x, y) ==
  IF x > 3 \/ y > 2
  THEN Panic
  ELSE [kind |-> "Board", empty_x |-> x, empty_y |-> y,
        nodes |-> IF y \in 0..1 /\ x \in 0..2
                  THEN [FullNodes EXCEPT ![y][x] = "Empty"]
                  ELSE FullNodes]

\* Board::new: the explicit guard, then the index expression vec[y][x], which
\* panics when y is not a row or x is not a column
Board_new(x, y) ==
  IF x > 3 \/ y > 2
  THEN Panic
  ELSE IF y \notin DOMAIN FullNodes
  THEN Panic
  ELSE IF x \notin DOMAIN FullNodes[y]
  THEN Panic
  ELSE [kind |-> "Board", empty_x |-> x, empty_y |-> y,
        nodes |-> [FullNodes EXCEPT ![y][x] = "Empty"]]

\* a mutant of move_up: the row is advanced instead of set to 0
move_up_increments(b) ==
  IF b.empty_y = 0
  THEN [ret |-> new_impossible_move(AsI32(b.empty_x), AsI32(b.empty_y),
                                    AsI32(b.empty_x), AsI32(b.empty_y) - 1),
        board |-> b]
  ELSE [ret |-> Ok,
        board |-> [b EXCEPT !.nodes = vec_swap(b.nodes, 0, 1),
                            !.empty_y = b.empty_y + 1]]

\* Board::move_up
move_up(b) ==
  IF b.empty_y = 0
  THEN [ret |-> new_impossible_move(AsI32(b.empty_x), AsI32(b.empty_y),
                                    AsI32(b.empty_x), AsI32(b.empty_y) - 1),
        board |-> b]
  ELSE [ret |-> Ok,
        board |-> [b EXCEPT !.nodes = vec_swap(b.nodes, 0, 1),
                            !.empty_y = 0]]

\* a mutant of move_down: the rows are swapped before the boundary test
move_down_swaps_first(b) ==
  LET s == [b EXCEPT !.nodes = vec_swap(b.nodes, 0, 1)]
  IN  IF b.empty_y = 1
      THEN [ret |-> new_impossible_move(AsI32(b.empty_x), AsI32(b.empty_y),
                                        AsI32(b.empty_x), AsI32(b.empty_y) + 1),
            board |-> s]
      ELSE [ret |-> Ok, board |-> [s EXCEPT !.empty_y = 1]]

\* a mutant of move_down: the boundary test of move_up
move_down_tests_top(b) ==
  IF b.empty_y = 0
  THEN [ret |-> new_impossible_move(AsI32(b.empty_x), AsI32(b.empty_y),
                                    AsI32(b.empty_x), AsI32(b.empty_y) + 1),
        board |-> b]
  ELSE [ret |-> Ok,
        board |-> [b EXCEPT !.nodes = vec_swap(b.nodes, 0, 1),
                            !.empty_y = 1]]

\* Board::move_down
move_down(b) ==
  IF b.empty_y = 1
  THEN [ret |-> new_impossible_move(AsI32(b.empty_x), AsI32(b.empty_y),
                                    AsI32(b.empty_x), AsI32(b.empty_y) + 1),
        board |-> b]
  ELSE [ret |-> Ok,
        board |-> [b EXCEPT !.nodes = vec_swap(b.nodes, 0, 1),
                            !.empty_y = 1]]

\* a mutant of move_left: the error reports the current cell as the destination
move_left_reports_current(b) ==
  IF b.empty_x = 0
  THEN [ret |-> new_impossible_move(AsI32(b.empty_x), AsI32(b.empty_y),
                                    AsI32(b.empty_x), AsI32(b.empty_y)),
        board |-> b]
  ELSE [ret |-> Ok,
        board |-> [b EXCEPT !.nodes[b.empty_y] =
                              vec_swap(b.nodes[b.empty_y], b.empty_x, b.empty_x - 1),
                            !.empty_x = b.empty_x - 1]]

\* a mutant of move_left: the cells are swapped but empty_x is not decremented
move_left_keeps_column(b) ==
  IF b.empty_x = 0
  THEN [ret |-> new_impossible_move(AsI32(b.empty_x), AsI32(b.empty_y),
                                    AsI32(b.empty_x) - 1, AsI32(b.empty_y)),
        board |-> b]
  ELSE [ret |-> Ok,
        board |-> [b EXCEPT !.nodes[b.empty_y] =
                              vec_swap(b.nodes[b.empty_y], b.empty_x, b.empty_x - 1)]]

\* Board::move_left
move_left(b) ==
  IF b.empty_x = 0
  THEN [ret |-> new_impossible_move(AsI32(b.empty_x), AsI32(b.empty_y),
                                    AsI32(b.empty_x) - 1, AsI32(b.empty_y)),
        board |-> b]
  ELSE [ret |-> Ok,
        board |-> [b EXCEPT !.nodes[b.empty_y] =
                              vec_swap(b.nodes[b.empty_y], b.empty_x, b.empty_x - 1),
                            !.empty_x = b.empty_x - 1]]

\* a mutant of move_right: the column is set to the last one, as the rows are
move_right_jumps(b) ==
  IF b.empty_x = 2
  THEN [ret |-> new_impossible_move(AsI32(b.empty_x), AsI32(b.empty_y),
                                    AsI32(b.empty_x) + 1, AsI32(b.empty_y)),
        board |-> b]
  ELSE [ret |-> Ok,
        board |-> [b EXCEPT !.nodes[b.empty_y] =
                              vec_swap(b.nodes[b.empty_y], b.empty_x, b.empty_x + 1),
                            !.empty_x = 2]]

\* a mutant of move_right: empty_x is incremented but the cells are not swapped
move_right_skips_swap(b) ==
  IF b.empty_x = 2
  THEN [ret |-> new_impossible_move(AsI32(b.empty_x), AsI32(b.empty_y),
                                    AsI32(b.empty_x) + 1, AsI32(b.empty_y)),
        board |-> b]
  ELSE [ret |-> Ok, board |-> [b EXCEPT !.empty_x = b.empty_x + 1]]

\* Board::move_right
move_right(b) ==
  IF b.empty_x = 2
  THEN [ret |-> new_impossible_move(AsI32(b.empty_x), AsI32(b.empty_y),
                                    AsI32(b.empty_x) + 1, AsI32(b.empty_y)),
        board |-> b]
  ELSE [ret |-> Ok,
        board |-> [b EXCEPT !.nodes[b.empty_y] =
                              vec_swap(b.nodes[b.empty_y], b.empty_x, b.empty_x + 1),
                            !.empty_x = b.empty_x + 1]]

\* Board::current_position
current_position(b) == <<b.empty_x, b.empty_y>>

\* the move that simulate calls for a direction
Move(d, b) ==
  CASE d = "up"    -> move_up(b)
    [] d = "down"  -> move_down(b)
    [] d = "left"  -> move_left(b)
    [] d = "right" -> move_right(b)

\* Counter::default()
CounterDefault ==
  [iterations |-> 0, zero |-> 0, one |-> 0, two |-> 0,
   three |-> 0, four |-> 0, five |-> 0]

\* a mutant of the chain on the drawn value: the test against 1.0 comes first
Branch_tests_one_first(v) ==
  IF v < ValDenom THEN "up"
  ELSE IF v * 4 < 2 * ValDenom THEN "down"
  ELSE IF v * 4 < 3 * ValDenom THEN "left"
  ELSE IF v * 4 < ValDenom THEN "right"
  ELSE "none"

\* a mutant of the chain on the drawn value: the third test repeats the second
Branch_repeats_half(v) ==
  IF v * 4 < ValDenom THEN "up"
  ELSE IF v * 4 < 2 * ValDenom THEN "down"
  ELSE IF v * 4 < 2 * ValDenom THEN "left"
  ELSE IF v < ValDenom THEN "right"
  ELSE "none"

\* the if / else-if chain of simulate on the drawn value v / ValDenom
Branch(v) ==
  IF v * 4 < ValDenom THEN "up"
  ELSE IF v * 4 < 2 * ValDenom THEN "down"
  ELSE IF v * 4 < 3 * ValDenom THEN "left"
  ELSE IF v < ValDenom THEN "right"
  ELSE "none"

\* a mutant of the match on a move's result: a rejected move ends the resample loop
MatchResult_counts_rejected(r, s) ==
  [success |-> TRUE, pc |-> "while"]

\* a mutant of the match on a move's result: the error leaves simulate
MatchResult_propagates(r, s) ==
  IF r.kind = "Ok"
  THEN [success |-> TRUE, pc |-> "while"]
  ELSE [success |-> s, pc |-> "error"]

\* the match on a move's result in simulate: Ok(_) => success = true, Err(_) => ()
MatchResult(r, s) ==
  IF r.kind = "Ok"
  THEN [success |-> TRUE, pc |-> "while"]
  ELSE [success |-> s, pc |-> "while"]

\* a mutant of the tally match: the arm of (2, 1) counts nothing
TallyMatch_drops_five(c, pos) ==
  CASE pos = <<0, 0>> -> [c EXCEPT !.zero = c.zero + 1]
    [] pos = <<1, 0>> -> [c EXCEPT !.one = c.one + 1]
    [] pos = <<2, 0>> -> [c EXCEPT !.two = c.two + 1]
    [] pos = <<0, 1>> -> [c EXCEPT !.three = c.three + 1]
    [] pos = <<1, 1>> -> [c EXCEPT !.four = c.four + 1]
    [] pos = <<2, 1>> -> c
    [] OTHER -> Panic

\* a mutant of the tally match: the arm of (2, 1) is missing
TallyMatch_without_five(c, pos) ==
  CASE pos = <<0, 0>> -> [c EXCEPT !.zero = c.zero + 1]
    [] pos = <<1, 0>> -> [c EXCEPT !.one = c.one + 1]
    [] pos = <<2, 0>> -> [c EXCEPT !.two = c.two + 1]
    [] pos = <<0, 1>> -> [c EXCEPT !.three = c.three + 1]
    [] pos = <<1, 1>> -> [c EXCEPT !.four = c.four + 1]
    [] OTHER -> Panic

\* a mutant of the tally match: the cells are labelled column by column
TallyMatch_column_major(c, pos) ==
  CASE pos = <<0, 0>> -> [c EXCEPT !.zero = c.zero + 1]
    [] pos = <<0, 1>> -> [c EXCEPT !.one = c.one + 1]
    [] pos = <<1, 0>> -> [c EXCEPT !.two = c.two + 1]
    [] pos = <<1, 1>> -> [c EXCEPT !.three = c.three + 1]
    [] pos = <<2, 0>> -> [c EXCEPT !.four = c.four + 1]
    [] pos = <<2, 1>> -> [c EXCEPT !.five = c.five + 1]
    [] OTHER -> Panic

\* the match on current_position in simulate; the default arm is unreachable!()
TallyMatch(c, pos) ==
  CASE pos = <<0, 0>> -> [c EXCEPT !.zero = c.zero + 1]
    [] pos = <<1, 0>> -> [c EXCEPT !.one = c.one + 1]
    [] pos = <<2, 0>> -> [c EXCEPT !.two = c.two + 1]
    [] pos = <<0, 1>> -> [c EXCEPT !.three = c.three + 1]
    [] pos = <<1, 1>> -> [c EXCEPT !.four = c.four + 1]
    [] pos = <<2, 1>> -> [c EXCEPT !.five = c.five + 1]
    [] OTHER -> Panic

\* `a as f64 / b as f64` for two usize values: the quotient num / den, NaN for
\* 0.0 / 0.0 and infinity for a positive value over 0.0
F64Div(a, b) ==
  IF b = 0
  THEN IF a = 0 THEN [kind |-> "NaN"] ELSE [kind |-> "inf"]
  ELSE [kind |-> "num", num |-> a, den |-> b]

\* a mutant of CounterPercentages::new: the last quotient is taken of prior.four
CounterPercentages_new_repeats_four(prior) ==
  [zero  |-> F64Div(prior.zero, prior.iterations),
   one   |-> F64Div(prior.one, prior.iterations),
   two   |-> F64Div(prior.two, prior.iterations),
   three |-> F64Div(prior.three, prior.iterations),
   four  |-> F64Div(prior.four, prior.iterations),
   five  |-> F64Div(prior.four, prior.iterations)]

\* CounterPercentages::new
CounterPercentages_new(prior) ==
  [zero  |-> F64Div(prior.zero, prior.iterations),
   one   |-> F64Div(prior.one, prior.iterations),
   two   |-> F64Div(prior.two, prior.iterations),
   three |-> F64Div(prior.three, prior.iterations),
   four  |-> F64Div(prior.four, prior.iterations),
   five  |-> F64Div(prior.five, prior.iterations)]

\* CounterPercentages::new has not been called
NoPercentages == [kind |-> "none"]

\* no move has been called yet
NoCall == [op |-> "none", ret |-> [kind |-> "none"]]

(* ------------------------------------------------------------------ *)
(* State                                                               *)
(* ------------------------------------------------------------------ *)

VARIABLES
  initial_x,  \* argument of simulate
  initial_y,  \* argument of simulate
  n,          \* argument of simulate
  pc,         \* position in simulate
  counter,    \* the Counter of simulate
  board,      \* the Board of simulate, NoBoard before Board::new returns
  i,          \* iterations of the for loop completed
  success,    \* the flag of the resample loop
  last,       \* the last move called and what it returned
  moves,      \* history: the number of moves that returned Ok
  percentages \* the CounterPercentages of simulate, NoPercentages before it is made

vars == <<initial_x, initial_y, n, pc, counter, board, i, success, last, moves,
          percentages>>

\* simulate is entered with its three usize arguments
Init ==
  /\ initial_x \in 0..MaxStartX
  /\ initial_y \in 0..MaxStartY
  /\ n \in 0..MaxN
  /\ pc = "start"
  /\ counter = CounterDefault
  /\ board = NoBoard
  /\ i = 0
  /\ success = FALSE
  /\ last = NoCall
  /\ moves = 0
  /\ percentages = NoPercentages

\* counter.iterations = n; Board::new(initial_x, initial_y); the generator
Construct ==
  /\ pc = "start"
  /\ counter' = [counter EXCEPT !.iterations = n]
  /\ LET b == Board_new(initial_x, initial_y)
     IN  IF b.kind = "Panic"
         THEN pc' = "panic" /\ board' = NoBoard
         ELSE pc' = "for" /\ board' = b
  /\ UNCHANGED <<initial_x, initial_y, n, i, success, last, moves, percentages>>

\* for _i in 0..n: another iteration begins with success = false
ForEnter ==
  /\ pc = "for"
  /\ i < n
  /\ success' = FALSE
  /\ pc' = "while"
  /\ UNCHANGED <<initial_x, initial_y, n, counter, board, i, last, moves, percentages>>

\* one pass of the resample loop: a draw, the move of its quarter, the match
Sample(v) ==
  /\ pc = "while"
  /\ ~success
  /\ LET d == Branch(v)
     IN  IF d = "none"
         THEN UNCHANGED <<pc, board, success, last, moves>>
         ELSE LET r == Move(d, board)
                  m == MatchResult(r.ret, success)
              IN  /\ board' = r.board
                  /\ success' = m.success
                  /\ pc' = m.pc
                  /\ last' = [op |-> d, ret |-> r.ret]
                  /\ moves' = IF r.ret.kind = "Ok" THEN moves + 1 ELSE moves
  /\ UNCHANGED <<initial_x, initial_y, n, counter, i, percentages>>

\* the draws of one quarter of [0,1)
SampleDir(d) ==
  \E v \in 0..(ValDenom - 1) : Branch(v) = d /\ Sample(v)

\* the resample loop has ended: the position is read and tallied
Tally ==
  /\ pc = "while"
  /\ success
  /\ LET c == TallyMatch(counter, current_position(board))
     IN  IF c = Panic
         THEN pc' = "unreachable" /\ UNCHANGED <<counter, i>>
         ELSE pc' = "for" /\ counter' = c /\ i' = i + 1
  /\ UNCHANGED <<initial_x, initial_y, n, board, success, last, moves, percentages>>

\* the for loop has ended: CounterPercentages::new(counter), then println!
ForExit ==
  /\ pc = "for"
  /\ i >= n
  /\ percentages' = CounterPercentages_new(counter)
  /\ pc' = "done"
  /\ UNCHANGED <<initial_x, initial_y, n, counter, board, i, success, last, moves>>

Next ==
  \/ Construct
  \/ ForEnter
  \/ \E v \in 0..(ValDenom - 1) : Sample(v)
  \/ Tally
  \/ ForExit

Spec == Init /\ [][Next]_vars

\* the program runs on, and every quarter of [0,1) keeps being drawn
FairSpec ==
  /\ Spec
  /\ WF_vars(Construct)
  /\ WF_vars(ForEnter)
  /\ WF_vars(Tally)
  /\ WF_vars(ForExit)
  /\ \A d \in Dirs : WF_vars(SampleDir(d))

(* ------------------------------------------------------------------ *)
(* Helpers of the properties                                           *)
(* ------------------------------------------------------------------ *)

HasBoard == board.kind = "Board"

ValidStart == initial_x \in 0..2 /\ initial_y \in 0..1

InGrid(pos) == pos[1] \in {0, 1, 2} /\ pos[2] \in {0, 1}

TallySum(c) == c.zero + c.one + c.two + c.three + c.four + c.five

\* the resample loop is about to draw
Drawing == pc = "while" /\ ~success

\* the boundary on which a direction is blocked
OnBoundary(d, b) ==
  CASE d = "up"    -> b.empty_y = 0
    [] d = "down"  -> b.empty_y = 1
    [] d = "left"  -> b.empty_x = 0
    [] d = "right" -> b.empty_x = 2

\* the error expected of a blocked direction: the current cell and the cell one
\* step beyond the grid
Beyond(d, b) ==
  CASE d = "up"    -> new_impossible_move(b.empty_x, b.empty_y, b.empty_x, -1)
    [] d = "down"  -> new_impossible_move(b.empty_x, b.empty_y, b.empty_x, 2)
    [] d = "left"  -> new_impossible_move(b.empty_x, b.empty_y, -1, b.empty_y)
    [] d = "right" -> new_impossible_move(b.empty_x, b.empty_y, 3, b.empty_y)

\* the directions whose move is rejected on a board
Illegal(b) == {d \in Dirs : Move(d, b).ret # Ok}

Rejected == last.ret.kind = "ImpossibleMove"

(* ------------------------------------------------------------------ *)
(* Properties                                                          *)
(* ------------------------------------------------------------------ *)

\* C1: once a board has been constructed at a start inside the grid, whatever
\* moves have been called since, accepted or rejected, current_position() is a
\* pair (x, y) with x in {0,1,2} and y in {0,1}.
C1_PositionInGrid ==
  HasBoard => InGrid(current_position(board))

\* a rejected move after two accepted ones
C1_Witness ==
  HasBoard /\ Rejected /\ moves >= 2

\* C2: a move that returns the illegal-move error leaves empty_x, empty_y and
\* the cells as they were; the board changes only in a call that returns Ok.
C2_FailedMoveLeavesBoard ==
  [][ /\ (Drawing /\ last'.ret.kind = "ImpossibleMove" => board' = board)
      /\ (HasBoard /\ board' # board => Drawing /\ last'.ret = Ok) ]_vars

\* a move has just been rejected at the cell its error names, the empty cell
\* still being there
C2_Witness ==
  /\ Drawing /\ Rejected /\ moves >= 1
  /\ current_position(board) = <<last.ret.curr_x, last.ret.curr_y>>
  /\ board.nodes[board.empty_y][board.empty_x] = "Empty"

\* C3: a move is rejected exactly when the empty cell is on the boundary of its
\* direction (up: y = 0, down: y = 1, left: x = 0, right: x = 2), and its
\* error carries the current cell and the cell one step beyond the grid
\* (y = -1, y = 2, x = -1, x = 3, the other coordinate kept).
C3_FailsExactlyOnBoundary ==
  HasBoard =>
    /\ \A d \in Dirs :
         IF OnBoundary(d, board)
         THEN Move(d, board).ret = Beyond(d, board)
         ELSE Move(d, board).ret = Ok
    /\ (Rejected /\ Drawing =>
          OnBoundary(last.op, board) /\ last.ret = Beyond(last.op, board))

\* move_left has just been rejected at (0,0) with destination x = -1
C3_Witness ==
  /\ HasBoard /\ Drawing /\ Rejected
  /\ last.op = "left"
  /\ last.ret = new_impossible_move(0, 0, -1, 0)

\* C4: an accepted move changes one coordinate by one and keeps the other:
\* up sets y from 1 to 0, down sets y from 0 to 1, left takes 1 from x and
\* right adds 1 to x.
C4_AcceptedMoveEffect ==
  [][ (Drawing /\ last'.ret = Ok) =>
        CASE last'.op = "up" ->
               /\ board.empty_y = 1 /\ board'.empty_y = 0
               /\ board'.empty_x = board.empty_x
          [] last'.op = "down" ->
               /\ board.empty_y = 0 /\ board'.empty_y = 1
               /\ board'.empty_x = board.empty_x
          [] last'.op = "left" ->
               /\ board'.empty_x = board.empty_x - 1
               /\ board'.empty_y = board.empty_y
          [] last'.op = "right" ->
               /\ board'.empty_x = board.empty_x + 1
               /\ board'.empty_y = board.empty_y
          [] OTHER -> FALSE ]_vars

\* move_right has just been accepted into the last column
C4_Witness ==
  /\ HasBoard /\ last = [op |-> "right", ret |-> Ok]
  /\ board.empty_x = 2 /\ pc = "while" /\ success

\* the six tallies of a Counter
Tallies(c) == <<c.zero, c.one, c.two, c.three, c.four, c.five>>

\* the number of tallies in which two Counters differ
Changed(c, d) == Cardinality({k \in 1..6 : Tallies(c)[k] # Tallies(d)[k]})

\* C5: throughout a run of simulate the six tallies are non-negative and sum to
\* the number of iterations of the for loop completed so far, every completed
\* iteration adding one to exactly one tally; when the loop has ended they sum
\* to n.
C5_TallySumIsIterations ==
  /\ [](/\ TallySum(counter) = i
        /\ \A k \in 1..6 : Tallies(counter)[k] >= 0
        /\ (pc = "done" => TallySum(counter) = n))
  /\ [][ /\ (i' # i => i' = i + 1)
         /\ (i' = i + 1 => /\ Changed(counter, counter') = 1
                           /\ TallySum(counter') = TallySum(counter) + 1)
         /\ (i' = i => Tallies(counter') = Tallies(counter)) ]_vars

\* a run of at least two iterations has ended
C5_Witness ==
  pc = "done" /\ n >= 2 /\ TallySum(counter) = n /\ i = n

\* C6: every iteration of the for loop holds exactly one accepted move, after
\* any number of rejected ones: a rejected move changes neither the board nor
\* a tally, a tally is added only once the move of the iteration has been
\* accepted, and a run of n iterations makes n accepted moves.
C6_OneAcceptedMovePerIteration ==
  /\ [](/\ (pc = "while" => moves = i + (IF success THEN 1 ELSE 0))
        /\ (pc \in {"for", "done"} => moves = i)
        /\ (pc = "done" => moves = n))
  /\ [][ /\ (Drawing /\ last'.ret.kind = "ImpossibleMove" =>
               /\ board' = board /\ counter' = counter
               /\ moves' = moves /\ i' = i /\ Drawing')
         /\ (Tallies(counter') # Tallies(counter) =>
               /\ success /\ last.ret = Ok /\ moves = i + 1
               /\ board' = board) ]_vars

\* the second iteration has accepted its move, which is not yet tallied
C6_Witness ==
  pc = "while" /\ success /\ i = 1 /\ moves = 2 /\ last.ret = Ok

\* C7: an illegal-move error never leaves simulate: after every rejected move
\* the resample loop is still drawing, and a run from a start inside the grid
\* is never in a panicked or error position.
C7_IllegalMoveAbsorbed ==
  /\ [](/\ pc \in {"start", "for", "while", "done", "panic"}
        /\ (pc = "panic" => last = NoCall /\ ~ValidStart)
        /\ (Rejected => pc = "while" /\ ~success))
  /\ [][ Drawing /\ last'.ret.kind = "ImpossibleMove" => Drawing' ]_vars

\* a move has been rejected in a later iteration and the loop draws again
C7_Witness ==
  ValidStart /\ Drawing /\ Rejected /\ i >= 1

\* C8: under fair draws a run from a start inside the grid ends after exactly n
\* iterations of the for loop; the resample loop only runs in one of these n
\* iterations, and on every reachable board some direction is legal.
C8_Terminates ==
  /\ (ValidStart => <>(pc = "done" /\ i = n))
  /\ [](pc = "while" => i < n)
  /\ [](HasBoard => Illegal(board) # Dirs)

\* a run of at least one iteration from a start inside the grid has ended
C8_Witness ==
  ValidStart /\ pc = "done" /\ i = n /\ n >= 1 /\ moves = n

\* C9: Board::new fails for every start with initial_x outside {0,1,2} or
\* initial_y outside {0,1}, before any move is called or any tally changed;
\* for a start inside these ranges it returns a board whose empty cell is at
\* (initial_x, initial_y).
C9_ConstructionValidatesStart ==
  /\ (pc # "start" /\ ~ValidStart =>
        /\ pc = "panic" /\ ~HasBoard
        /\ last = NoCall /\ moves = 0 /\ i = 0
        /\ Tallies(counter) = <<0, 0, 0, 0, 0, 0>>)
  /\ (pc # "start" /\ ValidStart => HasBoard /\ pc # "panic")
  /\ (HasBoard /\ moves = 0 =>
        /\ current_position(board) = <<initial_x, initial_y>>
        /\ board.nodes[initial_y][initial_x] = "Empty")

\* construction has failed at initial_x = 3, which the explicit guard lets pass
C9_Witness ==
  pc = "panic" /\ initial_x = 3 /\ initial_y \in {0, 1} /\ ~HasBoard

\* C10 as stated: from any grid position at most one of the four moves is
\* illegal, i.e. at least three succeed.
C10_AtMostOneIllegal ==
  HasBoard => Cardinality(Illegal(board)) <= 1

\* C10, amended: from any grid position at most two of the four moves are
\* illegal, i.e. at least two succeed: exactly two in the corners (x in {0,2})
\* and exactly one in the middle column (x = 1).
C10_AtMostTwoIllegal ==
  HasBoard =>
    /\ Cardinality(Illegal(board)) <= 2
    /\ Cardinality(Dirs \ Illegal(board)) >= 2
    /\ (board.empty_x \in {0, 2} => Cardinality(Illegal(board)) = 2)
    /\ (board.empty_x = 1 => Cardinality(Illegal(board)) = 1)

\* the empty cell has been moved into a corner, where two moves are illegal
C10_Witness ==
  HasBoard /\ moves >= 1 /\ current_position(board) = <<2, 1>>
  /\ Illegal(board) = {"down", "right"}

\* the direction opposite to a direction
Opposite(d) ==
  CASE d = "up"    -> "down"
    [] d = "down"  -> "up"
    [] d = "left"  -> "right"
    [] d = "right" -> "left"

\* C11: opposite moves undo each other: on every reachable board, whenever a
\* move is accepted, the opposite move called next is accepted too and puts
\* the empty cell back where it was (up/down, down/up, left/right, right/left).
C11_OppositeMovesInverse ==
  HasBoard =>
    \A d \in Dirs :
      LET r == Move(d, board)
      IN  r.ret = Ok =>
            LET q == Move(Opposite(d), r.board)
            IN  /\ q.ret = Ok
                /\ current_position(q.board) = current_position(board)
                /\ current_position(r.board) # current_position(board)

\* the run has made two accepted moves, the second one move_right, and the
\* empty cell is back at the start: a move_left undone by a move_right
C11_Witness ==
  /\ HasBoard /\ moves = 2 /\ last = [op |-> "right", ret |-> Ok]
  /\ current_position(board) = <<initial_x, initial_y>>

\* C12: the tally added in an iteration is the one of the empty cell's position
\* after the accepted move, the cells being labelled row by row ((0,0) zero,
\* (1,0) one, (2,0) two, (0,1) three, (1,1) four, (2,1) five, index x + 3*y);
\* no other tally changes in that iteration.
C12_TallyOfPosition ==
  [][ Tallies(counter') # Tallies(counter) =>
        LET k == board.empty_x + 3 * board.empty_y + 1
        IN  /\ board' = board
            /\ Tallies(counter')[k] = Tallies(counter)[k] + 1
            /\ \A j \in 1..6 : j # k => Tallies(counter')[j] = Tallies(counter)[j] ]_vars

\* an iteration has ended at (0,1) and the tally three holds it
C12_Witness ==
  /\ pc = "for" /\ i >= 1 /\ current_position(board) = <<0, 1>>
  /\ counter.three >= 1 /\ counter.one = 0

\* the six percentages of a CounterPercentages
Pcts(p) == <<p.zero, p.one, p.two, p.three, p.four, p.five>>

\* C14: after a run with n > 0 each of the six percentages is a quotient of a
\* tally by the iterations value n with 0 <= tally <= n, so it lies in [0,1],
\* and the six tallies divided sum to the divisor, so the percentages sum to 1.
C14_PercentagesAreDistribution ==
  (pc = "done" /\ n > 0) =>
    /\ \A k \in 1..6 :
         /\ Pcts(percentages)[k].kind = "num"
         /\ Pcts(percentages)[k].den = n
         /\ Pcts(percentages)[k].den = counter.iterations
         /\ Pcts(percentages)[k].num = Tallies(counter)[k]
         /\ Pcts(percentages)[k].num >= 0
         /\ Pcts(percentages)[k].num <= Pcts(percentages)[k].den
    /\ Pcts(percentages)[1].num + Pcts(percentages)[2].num
         + Pcts(percentages)[3].num + Pcts(percentages)[4].num
         + Pcts(percentages)[5].num + Pcts(percentages)[6].num
       = counter.iterations

\* a run of three iterations has ended with the percentage 1/3 for cell five
C14_Witness ==
  /\ pc = "done" /\ n = 3
  /\ percentages.five = [kind |-> "num", num |-> 1, den |-> 3]

\* C15: in a run of simulate the default arm of the tally match, unreachable!(),
\* is never taken: whenever the position is about to be tallied it is one of
\* the six cells.
C15_DefaultArmUnreachable ==
  /\ pc # "unreachable"
  /\ (pc = "while" /\ success =>
        TallyMatch(counter, current_position(board)) # Panic)

\* an iteration that ended at (2,1) has been tallied
C15_Witness ==
  pc = "for" /\ i >= 2 /\ current_position(board) = <<2, 1>> /\ counter.five >= 1

\* the cells of a board that hold a given Node
CellsOf(b, node) ==
  {rc \in (DOMAIN b.nodes) \X (0..2) : b.nodes[rc[1]][rc[2]] = node}

\* C16: on every board reachable from a valid construction by any moves, one
\* of the six cells of nodes is Empty, the other five are Particle, and the
\* Empty one is nodes[empty_y][empty_x].
C16_NodesMatchCoordinate ==
  HasBoard =>
    /\ DOMAIN board.nodes = 0..1
    /\ \A r \in 0..1 : DOMAIN board.nodes[r] = 0..2
    /\ CellsOf(board, "Empty") = {<<board.empty_y, board.empty_x>>}
    /\ Cardinality(CellsOf(board, "Particle")) = 5

\* move_up has just swapped the rows and the Empty cell is in row 0
C16_Witness ==
  /\ HasBoard /\ last = [op |-> "up", ret |-> Ok] /\ pc = "while" /\ success
  /\ moves >= 2 /\ board.empty_y = 0 /\ board.nodes[0][board.empty_x] = "Empty"

\* C18 as stated: CounterPercentages::new is only called, and so a tally only
\* divided by iterations, when iterations > 0, also when simulate is called
\* with n = 0.
C18_NeverDividesByZero ==
  percentages # NoPercentages =>
    /\ counter.iterations > 0
    /\ \A k \in 1..6 : Pcts(percentages)[k].kind = "num"

\* the parity of x + y of a cell
Parity(pos) == (pos[1] + pos[2]) % 2

\* the tallies of the cells of even x + y: zero (0,0), two (2,0), four (1,1)
EvenTallies(c) == c.zero + c.two + c.four

\* the tallies of the cells of odd x + y: one (1,0), three (0,1), five (2,1)
OddTallies(c) == c.one + c.three + c.five

\* C19: the parity of x + y of the position flips with every accepted move, so
\* after k completed iterations from (initial_x, initial_y) the tallies of the
\* cells of the parity of the start sum to floor(k/2) and those of the cells of
\* the other parity to ceil(k/2).
C19_ParityAlternates ==
  HasBoard =>
    LET start == Parity(<<initial_x, initial_y>>)
        same  == IF start = 0 THEN EvenTallies(counter) ELSE OddTallies(counter)
        other == IF start = 0 THEN OddTallies(counter) ELSE EvenTallies(counter)
    IN  /\ Parity(current_position(board)) = (start + moves) % 2
        /\ same = i \div 2
        /\ other = (i + 1) \div 2

\* three iterations have been tallied
C19_Witness ==
  /\ HasBoard /\ pc = "for" /\ i = 3
  /\ EvenTallies(counter) + OddTallies(counter) = 3
  /\ Parity(current_position(board)) # Parity(<<initial_x, initial_y>>)

\* the cells of the grid one step away from a cell
Neighbours(pos) ==
  {q \in (0..2) \X (0..1) :
     \/ (q[1] = pos[1] /\ (q[2] = pos[2] + 1 \/ q[2] = pos[2] - 1))
     \/ (q[2] = pos[2] /\ (q[1] = pos[1] + 1 \/ q[1] = pos[1] - 1))}

\* the quarter of [0,1) of a direction, in the order up, down, left, right
Quarter(d) ==
  CASE d = "up"    -> 0
    [] d = "down"  -> 1
    [] d = "left"  -> 2
    [] d = "right" -> 3

\* C17: an iteration of the resample loop has the outcomes of a direct choice
\* among the legal directions: while it draws, the pass that ends it can put
\* the empty cell on each neighbouring cell of the grid, the accepted move puts
\* it on such a cell and never leaves it where it was, and a rejected move
\* leaves it in place; every draw v / ValDenom of [0,1) attempts exactly the
\* direction whose quarter [q/4, (q+1)/4) holds it, in the order up, down,
\* left, right.
C17_RejectionSamplingOutcomes ==
  /\ [](/\ \A v \in 0..(ValDenom - 1) :
             /\ Branch(v) \in Dirs
             /\ Quarter(Branch(v)) * ValDenom <= 4 * v
             /\ 4 * v < (Quarter(Branch(v)) + 1) * ValDenom
        /\ \A d \in Dirs : \E v \in 0..(ValDenom - 1) : Branch(v) = d
        /\ (Drawing =>
              /\ Neighbours(current_position(board)) # {}
              /\ \A q \in Neighbours(current_position(board)) :
                   ENABLED (/\ \E v \in 0..(ValDenom - 1) : Sample(v)
                            /\ success'
                            /\ current_position(board') = q)))
  /\ [][ Drawing =>
           IF last'.ret = Ok
           THEN /\ current_position(board') \in Neighbours(current_position(board))
                /\ current_position(board') # current_position(board)
                /\ current_position(board') =
                     current_position(Move(last'.op, board).board)
                /\ last'.op \notin Illegal(board)
           ELSE current_position(board') = current_position(board) ]_vars

\* an iteration that began at (2,0) has ended at its neighbour (1,0)
C17_Witness ==
  /\ pc = "for" /\ i >= 2 /\ last = [op |-> "left", ret |-> Ok]
  /\ current_position(board) = <<1, 0>> /\ counter.one >= 1

====
